---- MODULE Spec2Model ----
(***************************************************************************)
(* Provider selection and concurrent dispatch/aggregation engine of the    *)
(* lio-ai service: ModelRegistry (catalog, selector), the credential       *)
(* endpoints of main.py and CodeGenerationService (dispatcher, reducer).   *)
(*                                                                         *)
(* Scores are kept as integers in units of 1/10000; percentages are        *)
(* integers 0..100.                                                        *)
(***************************************************************************)
EXTENDS Integers, Sequences, FiniteSets, TLC

NULL == "null"

Range(s) == {s[i] : i \in 1..Len(s)}

(***************************************************************************)
(* Configuration source: the `models` list of the YAML file read by        *)
(* _load_config, in file order, and the model the local Ollama host may    *)
(* serve.  Each entry is a ModelConfig (models.py).                        *)
(***************************************************************************)
Declared == <<"A", "B", "C", "D", "E">>

OllamaIds == <<"L">>

ModelIds == Range(Declared) \cup Range(OllamaIds)

\* the families of key_mapping in _check_api_key_available
KeyFamilies == {"openai", "anthropic"}

\* the ids whose `enabled` flag the configuration file is edited for
Togglable == {"D"}

ModelConfig(id) ==
    CASE id = "A" -> [provider |-> "openai", languages |-> {"python", "go"},
                      frameworks |-> {"fastapi"}, max_complexity |-> "advanced",
                      priority |-> 5, cost_per_request |-> 50,
                      average_latency_ms |-> 200, success_rate |-> 90]
      [] id = "B" -> [provider |-> "anthropic", languages |-> {"python"},
                      frameworks |-> {}, max_complexity |-> "simple",
                      priority |-> 1, cost_per_request |-> 100,
                      average_latency_ms |-> 1000, success_rate |-> 80]
      [] id = "C" -> [provider |-> "openai", languages |-> {"python"},
                      frameworks |-> {"fastapi"}, max_complexity |-> "advanced",
                      priority |-> 5, cost_per_request |-> 50,
                      average_latency_ms |-> 200, success_rate |-> 90]
      [] id = "D" -> [provider |-> "anthropic", languages |-> {"python", "go"},
                      frameworks |-> {}, max_complexity |-> "intermediate",
                      priority |-> 9, cost_per_request |-> 0,
                      average_latency_ms |-> 500, success_rate |-> 95]
      [] id = "E" -> [provider |-> "local", languages |-> {"python", "go"},
                      frameworks |-> {}, max_complexity |-> "advanced",
                      priority |-> 1, cost_per_request |-> 0,
                      average_latency_ms |-> 100, success_rate |-> 100]
      [] OTHER    -> [provider |-> "ollama", languages |-> {"python", "go"},
                      frameworks |-> {"all"}, max_complexity |-> "advanced",
                      priority |-> 3, cost_per_request |-> 0,
                      average_latency_ms |-> 0, success_rate |-> 100]

\* selection_strategies of the configuration file: name -> factors
SelectionStrategies ==
    [default |-> [language_match |-> 3000, complexity_match |-> 2000,
                  cost_efficiency |-> 1500, speed |-> 1000],
     fast    |-> [speed |-> 6000, success_rate |-> 1000]]

Languages == {"python", "go"}

Complexities == {"simple", "intermediate", "advanced"}

\* (framework, strategy) of the select_models calls
SelectModes == {<<NULL, "default">>, <<"fastapi", "default">>,
                <<NULL, "fast">>, <<NULL, "nosuch">>}

\* largest max_models a request carries
MaxK == 2

VARIABLES
    settings,             \* settings.<family>_api_key is a non-empty string
    cfgEnabled,           \* `enabled` of each declared model in the YAML file
    ollamaUp,             \* the Ollama host answers and serves OllamaIds
    models,               \* self.models: sequence of [id, enabled], insertion order
    providers,            \* keys of self.providers
    model_health_status,  \* self.model_health_status (NULL: no entry)
    reloadPc,             \* "idle", or "ollama": _load_config suspended in _load_ollama_models
    hcheck,               \* health_check_all: id being probed, entries consumed by the
                          \* loop, size of self.providers when the loop began, raised
    revoked,              \* families whose key a sync-keys call cleared and none has set since
    lastSelect,           \* arguments and return value of the select_models call just made
    lastValidate,         \* arguments and return value of the _validate_syntax call just made
    peer,                 \* the locals of a second generate_code call on the same service
    rpc,                  \* generate_code: "idle", "running" (in wait_for), "done";
                          \* _execute_parallel alone: "dispatching", "returned"
    request,              \* the CodeGenRequest being served
    shortlist,            \* model_ids returned by _prepare_model_selection
    units,                \* one entry per task of _execute_parallel
    completed,            \* task indices in the order the tasks finished
    timedOut,             \* wait_for raised TimeoutError
    response              \* the CodeGenResponse returned

catVars == <<settings, cfgEnabled, ollamaUp, models, providers,
             model_health_status, reloadPc, hcheck, revoked>>

reqVars == <<rpc, request, shortlist, units, completed, timedOut, response>>

vars == <<settings, cfgEnabled, ollamaUp, models, providers,
          model_health_status, reloadPc, hcheck, revoked, lastSelect,
          lastValidate, peer,
          rpc, request, shortlist, units, completed, timedOut, response>>

NoSelect == [called |-> FALSE]

NoValidate == [called |-> FALSE]

(***************************************************************************)
(* ModelRegistry                                                           *)
(***************************************************************************)
ComplexityOrder(c) ==
    CASE c = "simple" -> 0
      [] c = "intermediate" -> 1
      [] OTHER -> 2

\* _check_api_key_available, reading the given settings
CheckApiKey(st, family) ==
    IF family = "ollama" THEN TRUE
    ELSE IF family \in DOMAIN st THEN st[family] ELSE FALSE

_check_api_key_available(family) == CheckApiKey(settings, family)

\* one iteration of the loop over config['models'] in _load_config
LoadOne(cat, id, st, en) ==
    LET has_api_key == CheckApiKey(st, ModelConfig(id).provider)
        ms == Append(cat.models, [id |-> id, enabled |-> en[id]])
    IN  IF en[id] /\ has_api_key
        THEN [models |-> ms, providers |-> cat.providers \cup {id},
              health |-> cat.health]
        ELSE IF ~has_api_key
        THEN [models |-> ms, providers |-> cat.providers,
              health |-> [cat.health EXCEPT ![id] = "false"]]
        ELSE [models |-> ms, providers |-> cat.providers, health |-> cat.health]

RECURSIVE LoadDeclared(_, _, _, _)
\* the loop over config['models'] of _load_config, from entry i on
LoadDeclared(cat, i, st, en) ==
    IF i > Len(Declared) THEN cat
    ELSE LoadDeclared(LoadOne(cat, Declared[i], st, en), i + 1, st, en)

\* self.models[model_id] = model_config on a dict that keeps insertion order
PutModel(ms, id, en) ==
    IF \E j \in 1..Len(ms) : ms[j].id = id
    THEN [j \in 1..Len(ms) |->
             IF ms[j].id = id THEN [id |-> id, enabled |-> en] ELSE ms[j]]
    ELSE Append(ms, [id |-> id, enabled |-> en])

RECURSIVE LoadOllama(_, _, _)
\* _load_ollama_models: register every model the host lists
LoadOllama(cat, i, up) ==
    IF ~up \/ i > Len(OllamaIds) THEN cat
    ELSE LoadOllama([models |-> PutModel(cat.models, OllamaIds[i], TRUE),
                     providers |-> cat.providers \cup {OllamaIds[i]},
                     health |-> cat.health], i + 1, up)

EmptyHealth == [id \in ModelIds |-> NULL]

\* the catalog after initialize()
Loaded(st, en, up) ==
    LoadOllama(LoadDeclared([models |-> <<>>, providers |-> {},
                             health |-> EmptyHealth], 1, st, en), 1, up)

ModelIndex(id) == CHOOSE j \in 1..Len(models) : models[j].id = id

HasModel(id) == \E j \in 1..Len(models) : models[j].id = id

\* get_provider
get_provider(id) == id \in providers

\* backends whose last probe failed filtered out as well
EnabledFilter_healthy(m) ==
    m.enabled /\ m.id \in providers /\ model_health_status[m.id] # "false"

\* the enabled_only filter of list_models
EnabledFilter(m) == m.enabled /\ m.id \in providers

\* list_models(language, complexity, enabled_only=True): ids in insertion order
list_models(language, complexity) ==
    LET T(m) == /\ EnabledFilter(m)
                /\ language \in ModelConfig(m.id).languages
                /\ ComplexityOrder(ModelConfig(m.id).max_complexity)
                      >= ComplexityOrder(complexity)
        sel == SelectSeq(models, T)
    IN  [j \in 1..Len(sel) |-> sel[j].id]

\* get_model_status(model_id)["status"]
get_model_status(id) ==
    IF ~HasModel(id) THEN "not_found"
    ELSE LET model == models[ModelIndex(id)]
             has_api_key == _check_api_key_available(ModelConfig(id).provider)
             has_provider == id \in providers
         IN  IF ~model.enabled THEN "disabled"
             ELSE IF ~has_api_key THEN "no_api_key"
             ELSE IF ~has_provider THEN "not_initialized"
             ELSE "available"

Min(a, b) == IF a < b THEN a ELSE b

\* factors.get(name, dflt)
Get(f, name, dflt) == IF name \in DOMAIN f THEN f[name] ELSE dflt

\* _calculate_model_score
_calculate_model_score(id, language, framework, complexity, factors) ==
    LET m == ModelConfig(id)
        lang == IF language \in m.languages
                THEN Get(factors, "language_match", 3000) ELSE 0
        fw == IF framework # NULL /\ framework \in m.frameworks
              THEN Get(factors, "framework_match", 2000) ELSE 0
        cx == IF ComplexityOrder(m.max_complexity) >= ComplexityOrder(complexity)
              THEN Get(factors, "complexity_match", 2000) ELSE 0
        cost_score == 100 - Min(m.cost_per_request, 100)
        speed_score == 100 - Min(m.average_latency_ms \div 50, 100)
    IN  lang + fw + cx
        + (cost_score * Get(factors, "cost_efficiency", 1500)) \div 100
        + (speed_score * Get(factors, "speed", 1000)) \div 100
        + (m.success_rate * Get(factors, "success_rate", 500)) \div 100
        + m.priority * 100

\* an unstable sort: x goes in front of the elements of its own score
SortedInsert_unstable(s, x) ==
    LET before == {j \in 1..Len(s) : s[j].score > x.score}
        n == Cardinality(before)
    IN  IF \A j \in 1..Len(s) : (j \in before) = (j <= n)
        THEN SubSeq(s, 1, n) \o <<x>> \o SubSeq(s, n + 1, Len(s))
        ELSE s

\* list.sort(key=score, reverse=True) is stable: x goes behind every element
\* whose score is at least its own
SortedInsert(s, x) ==
    LET before == {j \in 1..Len(s) : s[j].score >= x.score}
        n == Cardinality(before)
    IN  IF \A j \in 1..Len(s) : (j \in before) = (j <= n)
        THEN SubSeq(s, 1, n) \o <<x>> \o SubSeq(s, n + 1, Len(s))
        ELSE s

RECURSIVE SortDesc(_)
SortDesc(s) ==
    IF s = <<>> THEN <<>>
    ELSE SortedInsert(SortDesc(SubSeq(s, 1, Len(s) - 1)), s[Len(s)])

\* an unknown name falls back to the "fast" table
StrategyFactors_fast(strategy) ==
    IF strategy \in DOMAIN SelectionStrategies
    THEN SelectionStrategies[strategy] ELSE SelectionStrategies["fast"]

\* strategy_config of select_models
StrategyFactors(strategy) ==
    LET dflt == IF "default" \in DOMAIN SelectionStrategies
                THEN SelectionStrategies["default"] ELSE <<>>
    IN  IF strategy \in DOMAIN SelectionStrategies
        THEN SelectionStrategies[strategy] ELSE dflt

Truncate(s, k) == SubSeq(s, 1, Min(k, Len(s)))

\* select_models
select_models(language, complexity, framework, max_models, strategy) ==
    LET eligible == list_models(language, complexity)
        factors == StrategyFactors(strategy)
        scored == [j \in 1..Len(eligible) |->
                     [id |-> eligible[j],
                      score |-> _calculate_model_score(eligible[j], language,
                                       framework, complexity, factors)]]
        sorted == SortDesc(scored)
        top == Truncate(sorted, max_models)
    IN  IF eligible = <<>> THEN <<>>
        ELSE [j \in 1..Len(top) |-> top[j].id]

(***************************************************************************)
(* Backend handles.  provider.generate_code(request, prompt) either        *)
(* returns a ModelResponse or raises; what a backend does on its           *)
(* successive calls is its plan, fixed when the task is created.           *)
(***************************************************************************)
Ok(code, conf) == [kind |-> "ok", code |-> code, conf |-> conf, err |-> NULL]

Raise(err) == [kind |-> "raise", code |-> "", conf |-> 0, err |-> err]

ErrResp(err) == [kind |-> "errresp", code |-> "", conf |-> 0, err |-> err]

PlanNames == {"ok", "fail2", "fail3", "errresp", "good", "junk", "empty"}

PlanOf(name) ==
    CASE name = "ok" ->
           <<Ok("code1", 80), Ok("code2", 80), Ok("code3", 80), Ok("code4", 80)>>
      [] name = "fail2" ->
           <<Raise("e1"), Raise("e2"), Ok("code3", 80), Ok("code4", 80)>>
      [] name = "fail3" ->
           <<Raise("e1"), Raise("e2"), Raise("e3"), Ok("code4", 80)>>
      [] name = "good" ->
           <<Ok("code1", 90), Ok("code2", 90), Ok("code3", 90), Ok("code4", 90)>>
      [] name = "junk" ->
           <<Ok("junk", 95), Ok("junk", 95), Ok("junk", 95), Ok("junk", 95)>>
      [] name = "empty" ->
           <<Ok("", 70), Ok("", 70), Ok("", 70), Ok("", 70)>>
      [] OTHER ->
           <<ErrResp("e0"), Ok("code2", 80), Ok("code3", 80), Ok("code4", 80)>>

\* the provider classes define no attribute `enabled`
ProviderHasEnabledAttr == FALSE

(***************************************************************************)
(* CodeGenerationService                                                   *)
(***************************************************************************)
\* stop_after_attempt(3) of the retry decorator
StopAfterAttempt == 3

\* ast.parse(code) returns
ParsesAsPython(code) == code \in {"code1", "code2", "code3", "code4", " ", ""}

\* len(code) > 0, the strip() left out
NonBlank_raw(code) == code # ""

\* len(code.strip()) > 0
NonBlank(code) == code \notin {"", " "}

\* _validate_syntax
_validate_syntax(code, language) ==
    IF language = "python" THEN ParsesAsPython(code) ELSE NonBlank(code)

NoOutcome ==
    [model_id |-> NULL, generated_code |-> "", confidence_score |-> 0,
     syntax_valid |-> FALSE, quality_metrics |-> "default", error |-> NULL]

\* the ModelResponse a provider returns for a result of its plan
ProviderResponse(id, res) ==
    [model_id |-> id, generated_code |-> res.code, confidence_score |-> res.conf,
     syntax_valid |-> FALSE, quality_metrics |-> "default", error |-> res.err]

\* the body of the try block of _execute_with_fallback after _execute returned
Evaluated(resp, language) ==
    IF resp.error = NULL /\ resp.generated_code # ""
    THEN [resp EXCEPT !.syntax_valid = _validate_syntax(resp.generated_code, language),
                      !.quality_metrics = "computed"]
    ELSE resp

\* the except block of _execute_with_fallback
ErrorOutcome(id, err) ==
    [model_id |-> id, generated_code |-> "", confidence_score |-> 0,
     syntax_valid |-> FALSE, quality_metrics |-> "default", error |-> err]

\* stop_after_attempt(2)
RetryStops_two(calls) == calls >= 2

\* stop_after_attempt(4)
RetryStops_four(calls) == calls >= 4

\* the retry decorator gives up after this call
RetryStops(calls) == calls >= StopAfterAttempt

WaitMultiplier == 1

WaitMin == 2

WaitMax == 10

Max(a, b) == IF a > b THEN a ELSE b

\* wait_exponential(multiplier=1, min=2, max=10) after the given attempt:
\* multiplier * 2 ** (attempt_number - 1), clamped to [min, max]
wait_exponential(attempt_number) ==
    Max(WaitMin, Min(WaitMultiplier * 2 ^ (attempt_number - 1), WaitMax))

\* one call of provider.generate_code inside _execute_with_fallback and what
\* the retry loop does with its result
UnitStep(u, language) ==
    LET n == u.calls + 1
        res == PlanOf(u.plan)[n]
    IN  IF res.kind = "raise"
        THEN IF RetryStops(n)
             THEN [u EXCEPT !.calls = n, !.done = TRUE,
                            !.outcome = ErrorOutcome(u.model_id, res.err)]
             ELSE [u EXCEPT !.calls = n,
                            !.slept = Append(u.slept, wait_exponential(n))]
        ELSE [u EXCEPT !.calls = n, !.done = TRUE,
                       !.outcome = Evaluated(ProviderResponse(u.model_id, res),
                                             language)]

\* the last maximal element
MaxByConfidence_last(rs) ==
    LET i == CHOOSE i \in 1..Len(rs) :
                /\ \A j \in 1..Len(rs) : rs[j].confidence_score <= rs[i].confidence_score
                /\ \A j \in (i + 1)..Len(rs) : rs[j].confidence_score < rs[i].confidence_score
    IN  rs[i]

\* max(valid_responses, key=confidence_score): the first maximal element
MaxByConfidence(rs) ==
    LET i == CHOOSE i \in 1..Len(rs) :
                /\ \A j \in 1..Len(rs) : rs[j].confidence_score <= rs[i].confidence_score
                /\ \A j \in 1..(i - 1) : rs[j].confidence_score < rs[i].confidence_score
    IN  rs[i]

IsSyntaxValid(r) == r.syntax_valid

\* the highest confidence of all responses, syntax_valid not looked at
_generate_consensus_raw(rs) ==
    LET best == MaxByConfidence(rs)
    IN  [code |-> best.generated_code, model |-> best.model_id]

\* _generate_consensus
_generate_consensus(rs) ==
    LET valid == SelectSeq(rs, IsSyntaxValid)
        best == MaxByConfidence(IF valid = <<>> THEN rs ELSE valid)
    IN  [code |-> best.generated_code, model |-> best.model_id]

\* an error response without its status
_create_error_response_nostatus(message) ==
    [request_id |-> request.request_id, status |-> NULL,
     model_responses |-> <<>>, consensus_code |-> NULL, best_model |-> NULL,
     error |-> message, models_attempted |-> 0, models_succeeded |-> 0]

\* _create_error_response
_create_error_response(message) ==
    [request_id |-> request.request_id, status |-> "failed",
     model_responses |-> <<>>, consensus_code |-> NULL, best_model |-> NULL,
     error |-> message, models_attempted |-> 0, models_succeeded |-> 0]

HasNoError(r) == r.error = NULL

\* `<=` for `<` in the comparison of the two lengths
StatusOf_le(nSuccessful, nResponses) ==
    IF nSuccessful = 0 THEN "failed"
    ELSE IF nSuccessful <= nResponses THEN "partial"
    ELSE "success"

\* status of generate_code
StatusOf(nSuccessful, nResponses) ==
    IF nSuccessful = 0 THEN "failed"
    ELSE IF nSuccessful < nResponses THEN "partial"
    ELSE "success"

\* the `elif len(successful_responses) == 1` branch left out
Respond_nobest(req, model_ids, model_responses) ==
    LET successful == SelectSeq(model_responses, HasNoError)
        cons == IF Len(successful) > 1 THEN _generate_consensus(successful)
                ELSE [code |-> NULL, model |-> NULL]
    IN  [request_id |-> req.request_id,
         status |-> StatusOf(Len(successful), Len(model_responses)),
         model_responses |-> model_responses,
         consensus_code |-> cons.code, best_model |-> cons.model,
         error |-> NULL, models_attempted |-> Len(model_ids),
         models_succeeded |-> Len(successful)]

\* best_model taken from the first response when fewer than two succeeded
Respond_anybest(req, model_ids, model_responses) ==
    LET successful == SelectSeq(model_responses, HasNoError)
        cons == IF Len(successful) > 1 THEN _generate_consensus(successful)
                ELSE IF Len(model_responses) >= 1
                     THEN [code |-> NULL, model |-> model_responses[1].model_id]
                     ELSE [code |-> NULL, model |-> NULL]
    IN  [request_id |-> req.request_id,
         status |-> StatusOf(Len(successful), Len(model_responses)),
         model_responses |-> model_responses,
         consensus_code |-> cons.code, best_model |-> cons.model,
         error |-> NULL, models_attempted |-> Len(model_ids),
         models_succeeded |-> Len(successful)]

\* generate_code from the return of _execute_parallel to its own return
Respond(req, model_ids, model_responses) ==
    LET successful == SelectSeq(model_responses, HasNoError)
        cons == IF Len(successful) > 1 THEN _generate_consensus(successful)
                ELSE IF Len(successful) = 1
                     THEN [code |-> NULL, model |-> successful[1].model_id]
                     ELSE [code |-> NULL, model |-> NULL]
    IN  [request_id |-> req.request_id,
         status |-> StatusOf(Len(successful), Len(model_responses)),
         model_responses |-> model_responses,
         consensus_code |-> cons.code, best_model |-> cons.model,
         error |-> NULL, models_attempted |-> Len(model_ids),
         models_succeeded |-> Len(successful)]

\* the validation loop of _prepare_model_selection: "raise" when the loop
\* reads provider.enabled of a handle that has no such attribute
RECURSIVE ValidateSelected(_, _)
ValidateSelected(sel, acc) ==
    IF sel = <<>> THEN [raised |-> FALSE, ids |-> acc]
    ELSE IF get_provider(Head(sel))
         THEN IF ProviderHasEnabledAttr
              THEN ValidateSelected(Tail(sel), Append(acc, Head(sel)))
              ELSE [raised |-> TRUE, ids |-> <<>>]
         ELSE ValidateSelected(Tail(sel), acc)

\* request.max_models or 3
DefaultMaxModels == 3

\* auto-selection whenever "auto" occurs anywhere in the list
_prepare_model_selection_anyauto(req) ==
    IF "auto" \notin Range(req.selected_models)
    THEN ValidateSelected(req.selected_models, <<>>)
    ELSE [raised |-> FALSE,
          ids |-> select_models(req.language, req.complexity, req.framework,
                     IF req.max_models = 0 THEN DefaultMaxModels ELSE req.max_models,
                     "default")]

\* _prepare_model_selection
_prepare_model_selection(req) ==
    IF req.selected_models # <<>> /\ req.selected_models[1] # "auto"
    THEN ValidateSelected(req.selected_models, <<>>)
    ELSE [raised |-> FALSE,
          ids |-> select_models(req.language, req.complexity, req.framework,
                     IF req.max_models = 0 THEN DefaultMaxModels ELSE req.max_models,
                     "default")]

\* the task list of _execute_parallel: ids without a handle get no task
TaskIds(model_ids) == SelectSeq(model_ids, get_provider)

NewUnit(id, plan) ==
    [model_id |-> id, plan |-> plan, calls |-> 0, slept |-> <<>>,
     done |-> FALSE, outcome |-> NoOutcome]

\* results collected as the tasks complete
GatherResults_completion(us, order) ==
    [k \in 1..Len(order) |-> us[order[k]].outcome]

\* failed tasks dropped from the result list
GatherResults_dropfailed(us, order) ==
    SelectSeq([i \in 1..Len(us) |-> us[i].outcome], HasNoError)

\* results kept only for the ids that still have a handle in the registry
GatherResults_live(us, order) ==
    LET live(r) == get_provider(r.model_id)
    IN  SelectSeq([i \in 1..Len(us) |-> us[i].outcome], live)

\* the result list of gather, in task order
GatherResults(us, order) == [i \in 1..Len(us) |-> us[i].outcome]

UnitDone(u) == u.done

\* the finished tasks' responses kept on timeout
TimeoutResults_partial(us) ==
    LET fin == SelectSeq(us, UnitDone)
    IN  [i \in 1..Len(fin) |-> fin[i].outcome]

\* the responses _execute_parallel returns when wait_for times out
TimeoutResults(us) == <<>>

Requests ==
    [request_id : {"r1"}, language : Languages,
     complexity : Complexities, framework : {NULL},
     selected_models : {<<"auto">>, <<"Z", "A">>, <<"Z">>, <<"Z", "auto">>},
     max_models : 0..MaxK]

\* the requests that carry an explicit list of ids
ExplicitRequests == {r \in Requests : r.selected_models[1] # "auto"}

\* generate_code up to the await of wait_for, or to its return when there
\* is nothing to run
GenerateCode(req) ==
    /\ rpc = "idle"
    /\ request' = req
    /\ LET sel == _prepare_model_selection(req)
           tasks == TaskIds(sel.ids)
       IN  IF sel.raised
           THEN /\ shortlist' = <<>>
                /\ units' = <<>>
                /\ response' = _create_error_response("attribute error")'
                /\ rpc' = "done"
           ELSE IF sel.ids = <<>>
           THEN /\ shortlist' = <<>>
                /\ units' = <<>>
                /\ response' = _create_error_response("No suitable models")'
                /\ rpc' = "done"
           ELSE /\ shortlist' = sel.ids
                /\ \E plans \in [1..Len(tasks) -> PlanNames] :
                      units' = [i \in 1..Len(tasks) |-> NewUnit(tasks[i], plans[i])]
                /\ response' = response
                /\ rpc' = "running"
    /\ UNCHANGED <<completed, timedOut>>
    /\ UNCHANGED catVars
    /\ UNCHANGED <<lastSelect, lastValidate, peer>>

\* a task that goes on calling its backend after generate_code returned
Attempt_detached(i) ==
    /\ rpc \in {"running", "dispatching", "done"}
    /\ i \in 1..Len(units)
    /\ ~units[i].done
    /\ units' = [units EXCEPT ![i] = UnitStep(units[i], request.language)]
    /\ completed' = IF units'[i].done THEN Append(completed, i) ELSE completed
    /\ UNCHANGED <<rpc, request, shortlist, timedOut, response>>
    /\ UNCHANGED catVars
    /\ UNCHANGED <<lastSelect, lastValidate, peer>>

\* task i makes its next backend call
Attempt(i) ==
    /\ rpc \in {"running", "dispatching"}
    /\ i \in 1..Len(units)
    /\ ~units[i].done
    /\ units' = [units EXCEPT ![i] = UnitStep(units[i], request.language)]
    /\ completed' = IF units'[i].done THEN Append(completed, i) ELSE completed
    /\ UNCHANGED <<rpc, request, shortlist, timedOut, response>>
    /\ UNCHANGED catVars
    /\ UNCHANGED <<lastSelect, lastValidate, peer>>

\* every task has finished: gather returns and generate_code returns
Gather ==
    /\ rpc = "running"
    /\ \A i \in 1..Len(units) : units[i].done
    /\ response' = Respond(request, shortlist, GatherResults(units, completed))
    /\ rpc' = "done"
    /\ UNCHANGED <<request, shortlist, units, completed, timedOut>>
    /\ UNCHANGED catVars
    /\ UNCHANGED <<lastSelect, lastValidate, peer>>

\* the timeout looked at only once every task has finished
Timeout_afterall ==
    /\ rpc = "running"
    /\ \A i \in 1..Len(units) : units[i].done
    /\ timedOut' = TRUE
    /\ response' = Respond(request, shortlist, TimeoutResults(units))
    /\ rpc' = "done"
    /\ UNCHANGED <<request, shortlist, units, completed>>
    /\ UNCHANGED catVars
    /\ UNCHANGED <<lastSelect, lastValidate, peer>>

\* request.timeout elapses while a task is still running
Timeout ==
    /\ rpc = "running"
    /\ \E i \in 1..Len(units) : ~units[i].done
    /\ timedOut' = TRUE
    /\ response' = Respond(request, shortlist, TimeoutResults(units))
    /\ rpc' = "done"
    /\ UNCHANGED <<request, shortlist, units, completed>>
    /\ UNCHANGED catVars
    /\ UNCHANGED <<lastSelect, lastValidate, peer>>

\* the requests and id lists _execute_parallel is called with on its own
DispatchRequests ==
    [request_id : {"r1"}, language : Languages,
     complexity : {"simple"}, framework : {NULL},
     selected_models : {<<"auto">>}, max_models : {0}]

DispatchLists == {<<"Z">>, <<"Z", "A">>, <<"A", "Z", "L">>, <<"A", "C">>}

\* _execute_parallel(request, model_ids, prompt) up to its await of wait_for
ExecuteParallel(req, model_ids) ==
    /\ rpc = "idle"
    /\ request' = req
    /\ shortlist' = model_ids
    /\ LET tasks == TaskIds(model_ids)
       IN  \E plans \in [1..Len(tasks) -> PlanNames] :
              units' = [i \in 1..Len(tasks) |-> NewUnit(tasks[i], plans[i])]
    /\ rpc' = "dispatching"
    /\ UNCHANGED <<completed, timedOut, response>>
    /\ UNCHANGED catVars
    /\ UNCHANGED <<lastSelect, lastValidate, peer>>

\* gather returns and _execute_parallel returns valid_responses
ExecuteReturn ==
    /\ rpc = "dispatching"
    /\ \A i \in 1..Len(units) : units[i].done
    /\ response' = [response EXCEPT
                       !.model_responses = GatherResults(units, completed)]
    /\ rpc' = "returned"
    /\ UNCHANGED <<request, shortlist, units, completed, timedOut>>
    /\ UNCHANGED catVars
    /\ UNCHANGED <<lastSelect, lastValidate, peer>>

\* wait_for raises TimeoutError and _execute_parallel returns []
ExecuteTimeout ==
    /\ rpc = "dispatching"
    /\ \E i \in 1..Len(units) : ~units[i].done
    /\ timedOut' = TRUE
    /\ response' = [response EXCEPT !.model_responses = TimeoutResults(units)]
    /\ rpc' = "returned"
    /\ UNCHANGED <<request, shortlist, units, completed>>
    /\ UNCHANGED catVars
    /\ UNCHANGED <<lastSelect, lastValidate, peer>>

NoRequest ==
    [request_id |-> NULL, language |-> NULL, complexity |-> NULL,
     framework |-> NULL, selected_models |-> <<>>, max_models |-> 0]

NoResponse ==
    [request_id |-> NULL, status |-> NULL, model_responses |-> <<>>,
     consensus_code |-> NULL, best_model |-> NULL, error |-> NULL,
     models_attempted |-> 0, models_succeeded |-> 0]

NoPeer ==
    [rpc |-> "idle", request |-> NoRequest, shortlist |-> <<>>, units |-> <<>>,
     timedOut |-> FALSE, response |-> NoResponse]

(***************************************************************************)
(* Operations on the catalog                                               *)
(***************************************************************************)
\* POST /api/v1/models/recommend
Recommend(language, complexity, framework, max_models, strategy) ==
    /\ lastSelect' = [called |-> TRUE, language |-> language,
                      complexity |-> complexity, framework |-> framework,
                      max_models |-> max_models, strategy |-> strategy,
                      result |-> select_models(language, complexity, framework,
                                               max_models, strategy)]
    /\ UNCHANGED <<lastValidate, peer>>
    /\ UNCHANGED catVars
    /\ UNCHANGED reqVars

\* POST /api/v1/models/sync-keys: every key is cleared, the keys of the
\* request are set, and reload_config() is called without await, so the
\* coroutine is created and dropped and the registry is left as it is
sync_api_keys(api_keys) ==
    /\ settings' = [f \in KeyFamilies |-> f \in api_keys]
    /\ revoked' = {f \in KeyFamilies \ api_keys : settings[f] \/ f \in revoked}
    /\ lastSelect' = NoSelect
    /\ UNCHANGED <<lastValidate, peer>>
    /\ UNCHANGED <<cfgEnabled, ollamaUp, models, providers,
                   model_health_status, reloadPc, hcheck>>
    /\ UNCHANGED reqVars

\* sync_user_api_keys: the keys the gateway returns are set, none is
\* cleared, and reload_config() is again called without await
sync_user_api_keys(keys) ==
    /\ settings' = [f \in KeyFamilies |-> settings[f] \/ f \in keys]
    /\ revoked' = revoked \ keys
    /\ lastSelect' = NoSelect
    /\ UNCHANGED <<lastValidate, peer>>
    /\ UNCHANGED <<cfgEnabled, ollamaUp, models, providers,
                   model_health_status, reloadPc, hcheck>>
    /\ UNCHANGED reqVars

\* the configuration file is edited on disk
EditConfig(id) ==
    /\ cfgEnabled' = [cfgEnabled EXCEPT ![id] = ~cfgEnabled[id]]
    /\ lastSelect' = NoSelect
    /\ UNCHANGED <<lastValidate, peer>>
    /\ UNCHANGED <<settings, ollamaUp, models, providers,
                   model_health_status, reloadPc, hcheck, revoked>>
    /\ UNCHANGED reqVars

\* reload_config awaited by a caller: clear both tables, then _load_config
\* up to its await of _load_ollama_models
ReloadStart ==
    /\ reloadPc = "idle"
    /\ LET cat == LoadDeclared([models |-> <<>>, providers |-> {},
                                health |-> model_health_status],
                               1, settings, cfgEnabled)
       IN  /\ models' = cat.models
           /\ providers' = cat.providers
           /\ model_health_status' = cat.health
    /\ reloadPc' = "ollama"
    /\ lastSelect' = NoSelect
    /\ UNCHANGED <<lastValidate, peer>>
    /\ UNCHANGED <<settings, cfgEnabled, ollamaUp, hcheck, revoked>>
    /\ UNCHANGED reqVars

\* reload_config when the file cannot be read or parsed: the tables are
\* already cleared when _load_config raises
ReloadFail ==
    /\ reloadPc = "idle"
    /\ models' = <<>>
    /\ providers' = {}
    /\ lastSelect' = NoSelect
    /\ UNCHANGED <<lastValidate, peer>>
    /\ UNCHANGED <<settings, cfgEnabled, ollamaUp, model_health_status,
                   reloadPc, hcheck, revoked>>
    /\ UNCHANGED reqVars

\* _load_ollama_models resumes and _load_config returns
ReloadFinish ==
    /\ reloadPc = "ollama"
    /\ LET cat == LoadOllama([models |-> models, providers |-> providers,
                              health |-> model_health_status], 1, ollamaUp)
       IN  /\ models' = cat.models
           /\ providers' = cat.providers
           /\ model_health_status' = cat.health
    /\ reloadPc' = "idle"
    /\ lastSelect' = NoSelect
    /\ UNCHANGED <<lastValidate, peer>>
    /\ UNCHANGED <<settings, cfgEnabled, ollamaUp, hcheck, revoked>>
    /\ UNCHANGED reqVars

\* the Ollama host starts or stops answering
OllamaChange ==
    /\ ollamaUp' = ~ollamaUp
    /\ lastSelect' = NoSelect
    /\ UNCHANGED <<lastValidate, peer>>
    /\ UNCHANGED <<settings, cfgEnabled, models, providers,
                   model_health_status, reloadPc, hcheck, revoked>>
    /\ UNCHANGED reqVars

\* the keys of self.providers in the order the dict iterates them: declared
\* models in file order, then the models of the Ollama host
ProviderOrder == SelectSeq(Declared \o OllamaIds, get_provider)

NoHealthCheck == [cur |-> NULL, pos |-> 0, size |-> 0, raised |-> FALSE]

\* the outcomes of provider.health_check()
ProbeResults == {"true", "false", "throws"}

\* health_check_all up to its first await of provider.health_check(); with
\* no provider the loop body never runs and the call returns {} at once
HealthStart ==
    /\ hcheck.cur = NULL
    /\ providers # {}
    /\ hcheck' = [cur |-> ProviderOrder[1], pos |-> 1,
                  size |-> Cardinality(providers), raised |-> FALSE]
    /\ UNCHANGED <<settings, cfgEnabled, ollamaUp, models, providers,
                   model_health_status, reloadPc, revoked>>
    /\ UNCHANGED <<lastSelect, lastValidate, peer>>
    /\ UNCHANGED reqVars

\* what the dict iterator does when the loop asks for the next item: it
\* raises RuntimeError when the dict has another size than when the loop
\* began, else yields the entry at its position, else stops
HealthAdvance(h) ==
    IF Cardinality(providers) # h.size
    THEN [NoHealthCheck EXCEPT !.raised = TRUE]
    ELSE IF h.pos < Len(ProviderOrder)
    THEN [h EXCEPT !.cur = ProviderOrder[h.pos + 1], !.pos = h.pos + 1]
    ELSE NoHealthCheck

\* a failed probe also drops the handle of the backend
HealthResume_evict(res) ==
    /\ hcheck.cur # NULL
    /\ model_health_status' =
           [model_health_status EXCEPT
               ![hcheck.cur] = IF res = "true" THEN "true" ELSE "false"]
    /\ providers' = IF res = "true" THEN providers ELSE providers \ {hcheck.cur}
    /\ hcheck' = HealthAdvance(hcheck)
    /\ UNCHANGED <<settings, cfgEnabled, ollamaUp, models, reloadPc, revoked>>
    /\ UNCHANGED <<lastSelect, lastValidate, peer>>
    /\ UNCHANGED reqVars

\* the awaited probe returns or raises: its result is stored and the loop
\* goes on to its next await, or health_check_all returns or raises
HealthResume(res) ==
    /\ hcheck.cur # NULL
    /\ model_health_status' =
           [model_health_status EXCEPT
               ![hcheck.cur] = IF res = "true" THEN "true" ELSE "false"]
    /\ providers' = providers
    /\ hcheck' = HealthAdvance(hcheck)
    /\ UNCHANGED <<settings, cfgEnabled, ollamaUp, models, reloadPc, revoked>>
    /\ UNCHANGED <<lastSelect, lastValidate, peer>>
    /\ UNCHANGED reqVars

\* the strings handed to _validate_syntax: empty, whitespace only, python
\* source, and text that no parser accepts
Contents == {"", " ", "code1", "junk"}

\* request.language is a free string: one value for each branch of
\* _validate_syntax
ValidateLanguages == {"python", "javascript", "typescript", "go", "rust"}

\* one call of _validate_syntax
ValidateSyntax(code, language) ==
    /\ lastValidate' = [called |-> TRUE, code |-> code, language |-> language,
                        result |-> _validate_syntax(code, language)]
    /\ UNCHANGED <<lastSelect, peer>>
    /\ UNCHANGED catVars
    /\ UNCHANGED reqVars

\* the request of the first of two overlapping generate_code calls
PairRequests ==
    [request_id : {"r1"}, language : {"python"}, complexity : {"simple"},
     framework : {NULL}, selected_models : {<<"auto">>}, max_models : {2}]

\* the requests of the second call: one that is dispatched to a single
\* backend and one that finds no backend
PeerRequests ==
    [request_id : {"r2"}, language : {"go"}, complexity : {"simple"},
     framework : {NULL}, selected_models : {<<"auto">>, <<"Z">>},
     max_models : {1}]

\* what the backend of the second call does
PeerPlanNames == {"ok", "fail3"}

\* generate_code of a second call that arrives while the first is suspended
\* in wait_for: the same code on its own locals
PeerGenerateCode(req) ==
    /\ rpc = "running"
    /\ peer.rpc = "idle"
    /\ LET sel == _prepare_model_selection(req)
           tasks == TaskIds(sel.ids)
           failed(msg) ==
               [peer EXCEPT !.request = req, !.rpc = "done",
                   !.response = [_create_error_response(msg)
                                     EXCEPT !.request_id = req.request_id]]
       IN  IF sel.raised THEN peer' = failed("attribute error")
           ELSE IF sel.ids = <<>> THEN peer' = failed("No suitable models")
           ELSE \E plans \in [1..Len(tasks) -> PeerPlanNames] :
                   peer' = [peer EXCEPT
                       !.request = req, !.rpc = "running", !.shortlist = sel.ids,
                       !.units = [i \in 1..Len(tasks) |->
                                     NewUnit(tasks[i], plans[i])]]
    /\ UNCHANGED <<lastSelect, lastValidate>>
    /\ UNCHANGED catVars
    /\ UNCHANGED reqVars

\* task i of the second call makes its next backend call
PeerAttempt(i) ==
    /\ peer.rpc = "running"
    /\ i \in 1..Len(peer.units)
    /\ ~peer.units[i].done
    /\ peer' = [peer EXCEPT
                   !.units[i] = UnitStep(peer.units[i], peer.request.language)]
    /\ UNCHANGED <<lastSelect, lastValidate>>
    /\ UNCHANGED catVars
    /\ UNCHANGED reqVars

\* every task of the second call has finished
PeerGather ==
    /\ peer.rpc = "running"
    /\ \A i \in 1..Len(peer.units) : peer.units[i].done
    /\ peer' = [peer EXCEPT
                   !.rpc = "done",
                   !.response = Respond(peer.request, peer.shortlist,
                                        GatherResults(peer.units, <<>>))]
    /\ UNCHANGED <<lastSelect, lastValidate>>
    /\ UNCHANGED catVars
    /\ UNCHANGED reqVars

\* the timer of the second call also ends the wait_for of the first
PeerTimeout_shared ==
    /\ peer.rpc = "running"
    /\ \E i \in 1..Len(peer.units) : ~peer.units[i].done
    /\ peer' = [peer EXCEPT
                   !.rpc = "done", !.timedOut = TRUE,
                   !.response = Respond(peer.request, peer.shortlist,
                                        TimeoutResults(peer.units))]
    /\ IF rpc = "running"
       THEN /\ timedOut' = TRUE
            /\ response' = Respond(request, shortlist, TimeoutResults(units))
            /\ rpc' = "done"
            /\ UNCHANGED <<request, shortlist, units, completed>>
       ELSE UNCHANGED reqVars
    /\ UNCHANGED <<lastSelect, lastValidate>>
    /\ UNCHANGED catVars

\* the timeout of the second call elapses while a task of it is running
PeerTimeout ==
    /\ peer.rpc = "running"
    /\ \E i \in 1..Len(peer.units) : ~peer.units[i].done
    /\ peer' = [peer EXCEPT
                   !.rpc = "done", !.timedOut = TRUE,
                   !.response = Respond(peer.request, peer.shortlist,
                                        TimeoutResults(peer.units))]
    /\ UNCHANGED <<lastSelect, lastValidate>>
    /\ UNCHANGED catVars
    /\ UNCHANGED reqVars

Init ==
    /\ settings \in [KeyFamilies -> BOOLEAN]
    /\ cfgEnabled \in {[id \in Range(Declared) |-> TRUE],
                       [id \in Range(Declared) |-> id \notin Togglable]}
    /\ ollamaUp \in BOOLEAN
    /\ LET cat == Loaded(settings, cfgEnabled, ollamaUp)
       IN  /\ models = cat.models
           /\ providers = cat.providers
           /\ model_health_status = cat.health
    /\ reloadPc = "idle"
    /\ hcheck = NoHealthCheck
    /\ revoked = {}
    /\ lastSelect = NoSelect
    /\ lastValidate = NoValidate
    /\ peer = NoPeer
    /\ rpc = "idle"
    /\ request = NoRequest
    /\ shortlist = <<>>
    /\ units = <<>>
    /\ completed = <<>>
    /\ timedOut = FALSE
    /\ response = NoResponse

CatalogNext ==
    \/ \E l \in Languages, c \in Complexities, m \in SelectModes, k \in 1..MaxK :
          Recommend(l, c, m[1], k, m[2])
    \/ \E ks \in SUBSET KeyFamilies : sync_api_keys(ks)
    \/ \E f \in KeyFamilies : sync_user_api_keys({f})
    \/ \E id \in Togglable : EditConfig(id)
    \/ ReloadStart
    \/ ReloadFail
    \/ ReloadFinish

DispatchNext ==
    \/ \E req \in Requests : GenerateCode(req)
    \/ \E i \in 1..DefaultMaxModels : Attempt(i)
    \/ Gather
    \/ Timeout

ExecuteNext ==
    \/ \E req \in DispatchRequests, ids \in DispatchLists :
          ExecuteParallel(req, ids)
    \/ \E i \in 1..DefaultMaxModels : Attempt(i)
    \/ ExecuteReturn
    \/ ExecuteTimeout

HealthNext ==
    \/ HealthStart
    \/ \E res \in ProbeResults : HealthResume(res)
    \/ OllamaChange
    \/ ReloadStart
    \/ ReloadFinish

ExplicitNext ==
    \/ \E ks \in SUBSET KeyFamilies : sync_api_keys(ks)
    \/ \E req \in ExplicitRequests : GenerateCode(req)

PairNext ==
    \/ \E req \in PairRequests : GenerateCode(req)
    \/ \E i \in 1..DefaultMaxModels : Attempt(i)
    \/ Gather
    \/ Timeout
    \/ \E req \in PeerRequests : PeerGenerateCode(req)
    \/ \E i \in 1..DefaultMaxModels : PeerAttempt(i)
    \/ PeerGather
    \/ PeerTimeout

\* one generate_code call with reloads and credential events taking place
\* while its units are in flight
InflightNext ==
    \/ \E req \in PairRequests : GenerateCode(req)
    \/ \E i \in 1..DefaultMaxModels : Attempt(i)
    \/ Gather
    \/ Timeout
    \/ rpc = "running" /\ ReloadStart
    \/ rpc = "running" /\ ReloadFinish
    \/ rpc = "running" /\ ReloadFail
    \/ rpc = "running" /\ \E ks \in SUBSET KeyFamilies : sync_api_keys(ks)

HealthSelectNext ==
    \/ HealthStart
    \/ \E res \in ProbeResults : HealthResume(res)
    \/ \E l \in Languages, c \in Complexities, k \in 1..MaxK :
          Recommend(l, c, NULL, k, "default")

ValidateNext ==
    \E code \in Contents, language \in ValidateLanguages :
        ValidateSyntax(code, language)

Next ==
    \/ CatalogNext \/ DispatchNext \/ ExecuteNext \/ ExplicitNext \/ HealthNext
    \/ ValidateNext \/ HealthSelectNext \/ PairNext \/ InflightNext

Spec == Init /\ [][Next]_vars

\* one generate_code call under a fair event loop: the completion callback
\* of gather and the timer of wait_for run once they are due; no backend is
\* required ever to answer
SpecDispatchFair ==
    Init /\ [][DispatchNext]_vars /\ WF_vars(Gather) /\ WF_vars(Timeout)

\* a generate_code call during which the registry is reloaded or keys change
SpecInflight == Init /\ [][InflightNext]_vars

\* two generate_code calls whose units run interleaved
SpecPair == Init /\ [][PairNext]_vars

\* health checks interleaved with calls of select_models, catalog unchanged
SpecHealthSelect == Init /\ [][HealthSelectNext]_vars

\* _validate_syntax applied to every content and language
SpecValidate == Init /\ [][ValidateNext]_vars

\* the registry operations and the credential endpoints, no request in flight
SpecCatalog == Init /\ [][CatalogNext]_vars

\* one generate_code call against the catalog as loaded at startup
SpecDispatch == Init /\ [][DispatchNext]_vars

\* health checks, reloads and the Ollama host coming and going
SpecHealth == Init /\ [][HealthNext]_vars

\* credential events and generate_code calls that name their backends
SpecExplicit == Init /\ [][ExplicitNext]_vars

\* one call of the dispatcher _execute_parallel with a given list of ids
SpecExecute == Init /\ [][ExecuteNext]_vars

TypeOK ==
    /\ providers \subseteq ModelIds
    /\ reloadPc \in {"idle", "ollama"}
    /\ rpc \in {"idle", "running", "done", "dispatching", "returned"}
    /\ revoked \subseteq KeyFamilies

(***************************************************************************)
(* Properties                                                              *)
(***************************************************************************)
Responses == response.model_responses

\* positions of id in a sequence of ids
PosIn(seq, id) == {i \in 1..Len(seq) : seq[i] = id}

\* the outcomes of the response that belong to backend id and carry no error
Succeeded(id) ==
    \E j \in 1..Len(Responses) :
        Responses[j].model_id = id /\ Responses[j].error = NULL

\* C1: when the deadline elapses before every unit has finished, the
\* response has status failed and no per-backend outcome, whatever the
\* units had produced by then
C1_DeadlineFailClosed ==
    (rpc = "done" /\ timedOut) =>
        /\ response.model_responses = <<>>
        /\ response.status = "failed"

C1_Witness ==
    /\ rpc = "done"
    /\ timedOut
    /\ \E i \in 1..Len(units) : units[i].done /\ units[i].outcome.error = NULL
    /\ response.status = "failed"

\* C2: for a non-empty shortlist the status is success iff every backend of
\* the shortlist has an outcome without error, partial iff some but not all
\* have one, failed iff none has
C2_StatusClassification ==
    (rpc = "done" /\ shortlist # <<>>) =>
        LET ok == {i \in 1..Len(shortlist) : Succeeded(shortlist[i])}
        IN  /\ (response.status = "success") <=> (ok = 1..Len(shortlist))
            /\ (response.status = "partial") <=>
                   (ok # {} /\ ok # 1..Len(shortlist))
            /\ (response.status = "failed") <=> (ok = {})

C2_Witness ==
    /\ rpc = "done"
    /\ Len(shortlist) = 3
    /\ response.status = "partial"
    /\ Cardinality({i \in 1..Len(shortlist) : Succeeded(shortlist[i])}) = 2

\* eligible for dispatch: enabled, credential available, handle ready
Eligible(id) ==
    /\ HasModel(id)
    /\ models[ModelIndex(id)].enabled
    /\ _check_api_key_available(ModelConfig(id).provider)
    /\ get_provider(id)

\* the score select_models gave to an id in the call recorded in lastSelect
ScoreInCall(id) ==
    _calculate_model_score(id, lastSelect.language, lastSelect.framework,
                           lastSelect.complexity,
                           StrategyFactors(lastSelect.strategy))

\* C3: select returns at most max_models ids, each eligible when the call
\* is made, in order of non-increasing score
C3_SelectBoundedEligibleSorted ==
    lastSelect.called =>
        LET r == lastSelect.result
        IN  /\ Len(r) <= lastSelect.max_models
            /\ \A i \in 1..Len(r) : Eligible(r[i])
            /\ \A i \in 1..Len(r), j \in 1..Len(r) :
                   i < j => ScoreInCall(r[i]) >= ScoreInCall(r[j])

\* C4: every id select returns supports the language, covers the requested
\* complexity, is enabled and credentialed; a python/advanced call with
\* max_models = 2 never returns the simple-tier backend B without credential
C4_SelectedCapableAndCredentialed ==
    lastSelect.called =>
        LET r == lastSelect.result
        IN  /\ \A i \in 1..Len(r) :
                   /\ lastSelect.language \in ModelConfig(r[i]).languages
                   /\ ComplexityOrder(ModelConfig(r[i]).max_complexity)
                          >= ComplexityOrder(lastSelect.complexity)
                   /\ models[ModelIndex(r[i])].enabled
                   /\ _check_api_key_available(ModelConfig(r[i]).provider)
            /\ (/\ lastSelect.language = "python"
                /\ lastSelect.complexity = "advanced"
                /\ lastSelect.max_models = 2) => "B" \notin Range(r)

\* C5: a backend that is disabled, or whose family's key a credential event
\* removed, is returned by no select call until it is enabled or keyed again
C5_RevokedNeverSelected ==
    lastSelect.called =>
        \A id \in Range(lastSelect.result) :
            /\ ModelConfig(id).provider \notin revoked
            /\ models[ModelIndex(id)].enabled

\* C6: a credential event leaves every enabled backend of a family it
\* supplied a key for with a handle, and every backend of a family whose
\* key it removed without one
C6_CredentialEventSetsHandles ==
    [][settings' # settings =>
          \A j \in 1..Len(models') :
              LET id == models'[j].id
                  f == ModelConfig(id).provider
              IN  f \in KeyFamilies =>
                    /\ (settings'[f] /\ ~settings[f] /\ models'[j].enabled)
                           => id \in providers'
                    /\ (~settings'[f] /\ settings[f]) => id \notin providers'
      ]_vars

\* C7: shortlist [A], A fails on the first and second call and succeeds on
\* the third, no timeout: the outcome has no error and the third call's code
C7_ThirdAttemptSucceeds ==
    (/\ rpc = "done"
     /\ ~timedOut
     /\ shortlist = <<"A">>
     /\ Len(units) = 1
     /\ units[1].plan = "fail2") =>
        /\ Len(Responses) = 1
        /\ Responses[1].model_id = "A"
        /\ Responses[1].error = NULL
        /\ Responses[1].generated_code = PlanOf("fail2")[3].code

C7_Witness ==
    /\ rpc = "done"
    /\ ~timedOut
    /\ shortlist = <<"A">>
    /\ Len(units) = 1
    /\ units[1].plan = "fail2"
    /\ units[1].calls = 3
    /\ response.status = "success"

\* the errors of the attempts of a plan that the retry loop retried
EarlierErrors == {"e1", "e2"}

\* C8: a unit calls its backend at most 3 times and never again after a
\* call that returned; when 3 calls raised, the unit's outcome carries the
\* third call's error, and no response carries an earlier call's error
C8_AttemptBudget ==
    /\ \A i \in 1..Len(units) :
          LET u == units[i]
              p == PlanOf(u.plan)
          IN  /\ u.calls <= 3
              /\ \A n \in 1..(u.calls - 1) : p[n].kind = "raise"
              /\ (u.calls = 3 /\ p[3].kind = "raise") =>
                     (u.done /\ u.outcome.error = p[3].err)
              /\ (\A n \in 1..3 : p[n].kind = "raise") =>
                     (u.done <=> u.calls = 3)
    /\ \A j \in 1..Len(Responses) : Responses[j].error \notin EarlierErrors
    /\ response.error \notin EarlierErrors

C8_Witness ==
    /\ rpc = "done"
    /\ ~timedOut
    /\ \E j \in 1..Len(Responses) :
          /\ units[j].plan = "fail3"
          /\ units[j].calls = 3
          /\ Responses[j].error = "e3"

\* a unit of which at least one backend call has failed
HasFailed(u) == u.calls >= 1 /\ PlanOf(u.plan)[1].kind # "ok"

\* what a backend with the given plan yields when it runs alone
AloneCode(plan) ==
    CASE plan = "ok" -> "code1"
      [] plan = "fail2" -> "code3"
      [] plan = "good" -> "code1"
      [] plan = "junk" -> "junk"
      [] OTHER -> ""

AloneError(plan) ==
    CASE plan = "ok" -> NULL
      [] plan = "fail2" -> NULL
      [] plan = "good" -> NULL
      [] plan = "junk" -> NULL
      [] plan = "empty" -> NULL
      [] plan = "fail3" -> "e3"
      [] OTHER -> "e0"

SiblingIntact(j) ==
    /\ j <= Len(Responses)
    /\ Responses[j].model_id = units[j].model_id
    /\ Responses[j].generated_code = AloneCode(units[j].plan)
    /\ Responses[j].error = AloneError(units[j].plan)

\* C9 as stated: whenever a unit has failed, every sibling that finished
\* has in the response the outcome it yields alone
C9_SiblingsUnaffected ==
    rpc = "done" =>
        \A i \in 1..Len(units) : HasFailed(units[i]) =>
            \A j \in 1..Len(units) : (j # i /\ units[j].done) => SiblingIntact(j)

\* C9 amended: in a dispatch that returns before the deadline elapses, a
\* failed unit leaves every sibling with the outcome it yields alone, its own
\* failure is an outcome with error set, and nothing is raised to the caller
C9_SiblingsUnaffectedBeforeDeadline ==
    (rpc = "done" /\ ~timedOut) =>
        \A i \in 1..Len(units) : HasFailed(units[i]) =>
            /\ \A j \in 1..Len(units) : j # i => SiblingIntact(j)
            /\ Len(Responses) = Len(units)
            /\ units[i].outcome.error # NULL =>
                   (/\ Responses[i].model_id = units[i].model_id
                    /\ Responses[i].error = units[i].outcome.error)
            /\ response.error = NULL

C9_Witness ==
    /\ rpc = "done"
    /\ ~timedOut
    /\ Len(units) >= 2
    /\ \E i \in 1..Len(units), j \in 1..Len(units) :
          /\ units[i].plan = "fail3"
          /\ Responses[i].error = "e3"
          /\ units[j].plan = "ok"
          /\ Responses[j].error = NULL

\* C10: the outcome list names the backends in the relative order of the
\* shortlist, whatever order the units finished in
C10_ShortlistOrder ==
    rpc = "done" =>
        \A a \in 1..Len(Responses), b \in 1..Len(Responses) :
            a < b =>
              \E i \in PosIn(shortlist, Responses[a].model_id),
                 j \in PosIn(shortlist, Responses[b].model_id) : i < j

C10_Witness ==
    /\ rpc = "done"
    /\ ~timedOut
    /\ Len(Responses) = 3
    /\ completed = <<3, 1, 2>>

\* C11: a dispatch that the deadline does not cut off returns exactly one
\* outcome per id of the shortlist, in shortlist order; the outcome of an
\* id without a handle carries an error and its backend is never called
C11_OneOutcomePerShortlistId ==
    (rpc \in {"done", "returned"} /\ ~timedOut) =>
        /\ Len(Responses) = Len(shortlist)
        /\ \A i \in 1..Len(shortlist) :
              /\ Responses[i].model_id = shortlist[i]
              /\ ~get_provider(shortlist[i]) => Responses[i].error # NULL
        /\ \A i \in 1..Len(units) : get_provider(units[i].model_id)

\* positions of the outcomes of the response that carry no error
SuccessfulAt == {j \in 1..Len(Responses) : Responses[j].error = NULL}

\* C12: when at least one outcome of a returned response has no error,
\* best_model is set and is the backend of an outcome of the list that has
\* no error
C12_BestIsErrorFreeOutcome ==
    (rpc = "done" /\ SuccessfulAt # {}) =>
        /\ response.best_model # NULL
        /\ \E j \in SuccessfulAt : Responses[j].model_id = response.best_model

C12_Witness ==
    /\ rpc = "done"
    /\ Len(Responses) = 2
    /\ Responses[1].error # NULL
    /\ Responses[2].error = NULL
    /\ response.best_model = Responses[2].model_id

\* positions of the error-free outcomes with syntax_valid = TRUE
ValidAt == {j \in SuccessfulAt : Responses[j].syntax_valid}

\* C13: the pick is an error-free outcome with valid syntax whenever there
\* is one, and an error-free outcome otherwise; a valid outcome of
\* confidence 90 is picked over an invalid one of confidence 95
C13_ValidSyntaxPreferred ==
    (rpc = "done" /\ SuccessfulAt # {}) =>
        /\ ValidAt # {} =>
              \E j \in ValidAt : Responses[j].model_id = response.best_model
        /\ ValidAt = {} =>
              \E j \in SuccessfulAt : Responses[j].model_id = response.best_model
        /\ \A a \in SuccessfulAt, b \in SuccessfulAt :
              (/\ SuccessfulAt = {a, b}
               /\ Responses[a].syntax_valid
               /\ Responses[a].confidence_score = 90
               /\ ~Responses[b].syntax_valid
               /\ Responses[b].confidence_score = 95) =>
                  /\ response.best_model = Responses[a].model_id
                  /\ response.consensus_code = Responses[a].generated_code

C13_Witness ==
    /\ rpc = "done"
    /\ Len(Responses) = 2
    /\ Responses[1].error = NULL /\ ~Responses[1].syntax_valid
    /\ Responses[1].confidence_score = 95
    /\ Responses[2].error = NULL /\ Responses[2].syntax_valid
    /\ Responses[2].confidence_score = 90
    /\ response.best_model = Responses[2].model_id

\* the same with no outcome of valid syntax: the pick falls back to the
\* whole error-free set
C13_FallbackWitness ==
    /\ rpc = "done"
    /\ Len(Responses) = 2
    /\ SuccessfulAt = {1, 2}
    /\ ValidAt = {}
    /\ response.best_model = Responses[1].model_id

\* C14: when exactly one outcome has no error, its backend is best_model
\* and its content is consensus_code
C14_SingleSuccessIsConsensus ==
    (rpc = "done" /\ Cardinality(SuccessfulAt) = 1) =>
        \A j \in SuccessfulAt :
            /\ response.best_model = Responses[j].model_id
            /\ response.consensus_code = Responses[j].generated_code

\* C15: a returned response with no error-free outcome has neither
\* consensus_code nor best_model
C15_NoSuccessNoConsensus ==
    (rpc = "done" /\ SuccessfulAt = {}) =>
        /\ response.consensus_code = NULL
        /\ response.best_model = NULL

C15_Witness ==
    /\ rpc = "done"
    /\ ~timedOut
    /\ Len(Responses) = 2
    /\ SuccessfulAt = {}
    /\ response.status = "failed"

\* the request names its backends
IsExplicit(req) == req.selected_models[1] # "auto"

\* no backend is eligible for the request: none of the listed ids for an
\* explicit list, none that supports the language and complexity otherwise
NoEligibleFor(req) ==
    IF IsExplicit(req)
    THEN \A id \in Range(req.selected_models) : ~Eligible(id)
    ELSE \A id \in ModelIds :
            ~(/\ Eligible(id)
              /\ req.language \in ModelConfig(id).languages
              /\ ComplexityOrder(ModelConfig(id).max_complexity)
                     >= ComplexityOrder(req.complexity))

\* C16: a request for which no backend is eligible returns at once with
\* status failed, no outcome, the indication that no backend is suitable,
\* and without any backend call
C16_EmptyShortlistFailsCleanly ==
    [][(rpc = "idle" /\ rpc' # "idle" /\ NoEligibleFor(request')) =>
          /\ rpc' = "done"
          /\ units' = <<>>
          /\ response'.status = "failed"
          /\ response'.model_responses = <<>>
          /\ response'.error = "No suitable models"
      ]_vars

\* C17: every generate_code call returns a response that carries a status,
\* also when selection raises; when it returns before the deadline, every
\* unit that failed is named in the outcome list with its error
C17_AlwaysAResponseWithStatus ==
    rpc = "done" =>
        /\ response.status \in {"success", "partial", "failed"}
        /\ response.request_id = request.request_id
        /\ ~timedOut =>
              \A i \in 1..Len(units) : units[i].outcome.error # NULL =>
                  \E j \in 1..Len(Responses) :
                      /\ Responses[j].model_id = units[i].model_id
                      /\ Responses[j].error = units[i].outcome.error

C17_Witness ==
    /\ rpc = "done"
    /\ response.error = "attribute error"
    /\ response.status = "failed"

\* the ids a complete load of the configuration puts in the catalog
CompleteIds ==
    Range(Declared) \cup (IF ollamaUp THEN Range(OllamaIds) ELSE {})

\* C18: a select that runs while a reload is in progress sees a complete
\* catalog, every declared and every discovered backend in the table
C18_ReloadAtomicToReaders ==
    (lastSelect.called /\ reloadPc = "ollama") =>
        \A id \in CompleteIds : HasModel(id)

\* C19: for an explicit list the shortlist is the sub-list of the eligible
\* ids in request order, and the request does not end in an error when
\* that sub-list is not empty
C19_ExplicitListFiltered ==
    (rpc = "done" /\ IsExplicit(request)) =>
        LET wanted == SelectSeq(request.selected_models, Eligible)
        IN  /\ shortlist = wanted
            /\ wanted # <<>> => response.error = NULL

\* the families that need no credential
KeylessFamilies == {"ollama", "local"}

\* C20: every backend of the catalog whose family needs no credential has
\* its credential available
C20_KeylessAlwaysCredentialed ==
    \A j \in 1..Len(models) :
        ModelConfig(models[j].id).provider \in KeylessFamilies =>
            _check_api_key_available(ModelConfig(models[j].id).provider)

\* C21: every outcome of a returned response either has content and no
\* error or has its error set; none has empty content and no error
C21_ContentOrError ==
    rpc = "done" =>
        \A j \in 1..Len(Responses) :
            Responses[j].error = NULL => Responses[j].generated_code # ""

\* the subset the consensus reducer chooses from
ChosenAt == IF ValidAt # {} THEN ValidAt ELSE SuccessfulAt

\* C22: the pick has the highest confidence of the chosen subset and is the
\* first of the outcomes that have it, in the order of the outcome list
C22_MaxConfidenceFirstWins ==
    (rpc = "done" /\ Cardinality(SuccessfulAt) >= 2) =>
        \E j \in ChosenAt :
            /\ response.best_model = Responses[j].model_id
            /\ response.consensus_code = Responses[j].generated_code
            /\ \A k \in ChosenAt :
                  /\ Responses[k].confidence_score <= Responses[j].confidence_score
                  /\ Responses[k].confidence_score = Responses[j].confidence_score
                         => j <= k

C22_Witness ==
    /\ rpc = "done"
    /\ Len(Responses) = 3
    /\ ValidAt = {1, 2, 3}
    /\ Responses[1].confidence_score = 80
    /\ Responses[2].confidence_score = 90
    /\ Responses[3].confidence_score = 90
    /\ response.best_model = Responses[2].model_id

\* C23: every outcome without error carries the syntax flag and the quality
\* metrics computed for its content and the language of the request
C23_SuccessesAreEvaluated ==
    rpc = "done" =>
        \A j \in SuccessfulAt :
            /\ Responses[j].syntax_valid =
                   _validate_syntax(Responses[j].generated_code, request.language)
            /\ Responses[j].quality_metrics = "computed"

\* C24: once the deadline has made the call return, no unit calls its
\* backend or waits again, and nothing is added to the outcome list
C24_DeadlineIsHardCutoff ==
    [][timedOut =>
          /\ units' = units
          /\ completed' = completed
          /\ response' = response
      ]_vars

C24_Witness ==
    /\ rpc = "done"
    /\ timedOut
    /\ \E i \in 1..Len(units) :
          /\ ~units[i].done
          /\ units[i].calls = 1
          /\ Len(units[i].slept) = 1

\* C25: the wait before the third attempt is twice the wait before the
\* second (2 s, then 4 s), and no wait exceeds the cap
C25_BackoffDoubles ==
    \A i \in 1..Len(units) :
        LET w == units[i].slept
        IN  /\ \A n \in 1..Len(w) : w[n] <= WaitMax
            /\ Len(w) >= 1 => w[1] = 2
            /\ Len(w) >= 2 => (w[2] = 2 * w[1] /\ w[2] = 4)

\* what select_models returns for the recorded call under another strategy
SelectedUnder(strategy) ==
    select_models(lastSelect.language, lastSelect.complexity,
                  lastSelect.framework, lastSelect.max_models, strategy)

\* C26: a select with a strategy name that is not in the table returns the
\* list that the same select returns with strategy "default"
C26_UnknownStrategyIsDefault ==
    (lastSelect.called /\ lastSelect.strategy \notin DOMAIN SelectionStrategies)
        => lastSelect.result = SelectedUnder("default")

C26_Witness ==
    /\ lastSelect.called
    /\ lastSelect.strategy = "nosuch"
    /\ lastSelect.result # <<>>
    /\ lastSelect.result # SelectedUnder("fast")

\* the backends select_models chose from in the recorded call
CandidatesInCall == Range(list_models(lastSelect.language, lastSelect.complexity))

\* C27: backends of equal score are returned in catalog insertion order,
\* and when the list is cut between them the earlier one is the one kept
C27_TiesInInsertionOrder ==
    lastSelect.called =>
        LET r == lastSelect.result
        IN  /\ \A i \in 1..Len(r), j \in 1..Len(r) :
                  (i < j /\ ScoreInCall(r[i]) = ScoreInCall(r[j]))
                      => ModelIndex(r[i]) < ModelIndex(r[j])
            /\ \A i \in 1..Len(r) : \A y \in CandidatesInCall \ Range(r) :
                  ScoreInCall(r[i]) = ScoreInCall(y)
                      => ModelIndex(r[i]) < ModelIndex(y)

C27_Witness ==
    /\ lastSelect.called
    /\ lastSelect.max_models = 1
    /\ lastSelect.result = <<"A">>
    /\ "C" \in CandidatesInCall
    /\ ScoreInCall("A") = ScoreInCall("C")

\* the same tie with both backends returned
C27_BothWitness ==
    /\ lastSelect.called
    /\ \E i \in 1..(Len(lastSelect.result) - 1) :
          /\ lastSelect.result[i] = "A"
          /\ lastSelect.result[i + 1] = "C"
    /\ ScoreInCall("A") = ScoreInCall("C")

\* C28: a step of health_check_all leaves the set of backends, their
\* enabled flags, the credentials and the handles as they were
C28_HealthCheckFrame ==
    [][hcheck' # hcheck =>
          /\ models' = models
          /\ providers' = providers
          /\ settings' = settings
          /\ cfgEnabled' = cfgEnabled
      ]_vars

C28_Witness ==
    /\ hcheck = NoHealthCheck
    /\ \E a \in providers, b \in providers :
          /\ model_health_status[a] = "true"
          /\ model_health_status[b] = "false"

\* C29: a reload whose load step fails leaves the catalog that was there
C29_FailedReloadKeepsCatalog ==
    [][ReloadFail => (models' = models /\ providers' = providers)]_vars

\* C30: when a reload completes, every id that has a health-status entry
\* is an id of the catalog
C30_NoStaleHealthEntries ==
    [][(reloadPc = "ollama" /\ reloadPc' = "idle") =>
          \A id \in ModelIds :
              model_health_status'[id] # NULL => HasModel(id)'
      ]_vars

\* the contents that are empty once leading and trailing whitespace is removed
WhitespaceOnly == {"", " "}

\* C31: for a language other than python _validate_syntax returns true
\* exactly when the content is not empty after trimming, and for every
\* language and content it returns a boolean
C31_NonParserLanguagesByTrimmedLength ==
    lastValidate.called =>
        /\ lastValidate.result \in BOOLEAN
        /\ lastValidate.language # "python" =>
              (lastValidate.result <=> lastValidate.code \notin WhitespaceOnly)

C31_Witness ==
    /\ lastValidate.called
    /\ lastValidate.language = "go"
    /\ lastValidate.code = " "
    /\ lastValidate.result = FALSE


\* C32: every generate_code call that has launched its units eventually
\* returns a response, whether the backends answer, fail or stay silent
C32_CallTerminates == (rpc = "running") ~> (rpc = "done" /\ response.status # NULL)

C32_Witness ==
    /\ rpc = "done"
    /\ timedOut
    /\ response.status = "failed"
    /\ \A i \in 1..Len(units) : units[i].calls = 0


\* what select_models returns for the request under the default strategy
\* with the given cap
AutoSelected(cap) ==
    select_models(request.language, request.complexity, request.framework,
                  cap, "default")

\* C33: a request is served by auto-selection exactly when the first
\* element of its list is "auto", with a cap of 3 when it gives none; with
\* any other first element the list is explicit, and an "auto" further
\* down is never dispatched and never turns selection on
C33_AutoIffFirstIsSentinel ==
    rpc \in {"running", "done"} =>
        IF request.selected_models[1] = "auto"
        THEN shortlist = AutoSelected(IF request.max_models = 0 THEN 3
                                      ELSE request.max_models)
        ELSE /\ "auto" \notin Range(shortlist)
             /\ Range(shortlist) \subseteq Range(request.selected_models)

C33_Witness ==
    /\ rpc = "done"
    /\ request.selected_models = <<"Z", "auto">>
    /\ request.max_models = 0
    /\ AutoSelected(3) # <<>>
    /\ shortlist = <<>>
    /\ response.error = "No suitable models"


\* C34: a health_check_all call during which a reload clears and refills
\* the handle table does not end in an exception
C34_HealthCheckSurvivesReload == ~hcheck.raised


\* C35: what select_models returned before the recorded health of the
\* backends changed is what it returns for the same arguments afterwards,
\* and every id it returned is still given a unit by the dispatcher
C35_HealthNeverAffectsSelection ==
    lastSelect.called =>
        /\ lastSelect.result
              = select_models(lastSelect.language, lastSelect.complexity,
                              lastSelect.framework, lastSelect.max_models,
                              lastSelect.strategy)
        /\ TaskIds(lastSelect.result) = lastSelect.result

C35_Witness ==
    /\ lastSelect.called
    /\ Len(lastSelect.result) = 2
    /\ model_health_status[lastSelect.result[1]] = "false"
    /\ model_health_status[lastSelect.result[2]] = "true"


\* the ids list_models(enabled_only=True) returns when no language or
\* complexity is asked for
ListedEnabled == {models[j].id : j \in {k \in 1..Len(models) : EnabledFilter(models[k])}}

\* C36: get_model_status reports available for exactly the ids that
\* list_models(enabled_only=True) returns
C36_StatusAgreesWithListing ==
    \A id \in ModelIds :
        (get_model_status(id) = "available") <=> (id \in ListedEnabled)


\* the ids of the outcomes a response carries
OutcomeIds(resp) == {resp.model_responses[j].model_id : j \in 1..Len(resp.model_responses)}

\* C37: of two interleaved generate_code calls each returns a response with
\* its own request id, holding only outcomes of ids on its own shortlist and
\* built from its own units alone; no step of one call changes the units,
\* the state or the response of the other
C37_ConcurrentRequestsIsolated ==
    /\ [](/\ rpc = "done" =>
                /\ response.request_id = request.request_id
                /\ OutcomeIds(response) \subseteq Range(shortlist)
                /\ (~timedOut /\ units # <<>>) =>
                      response = Respond(request, shortlist,
                                         GatherResults(units, completed))
          /\ peer.rpc = "done" =>
                /\ peer.response.request_id = peer.request.request_id
                /\ OutcomeIds(peer.response) \subseteq Range(peer.shortlist)
                /\ (~peer.timedOut /\ peer.units # <<>>) =>
                      peer.response = Respond(peer.request, peer.shortlist,
                                              GatherResults(peer.units, <<>>)))
    /\ [][/\ peer' # peer => UNCHANGED reqVars
          /\ reqVars' # reqVars => peer' = peer]_vars

C37_Witness ==
    /\ rpc = "done"
    /\ response.request_id = "r1"
    /\ response.status = "success"
    /\ Len(Responses) = 2
    /\ peer.rpc = "done"
    /\ peer.timedOut
    /\ peer.units[1].calls >= 1
    /\ peer.response.request_id = "r2"
    /\ peer.response.status = "failed"


\* C38: a reload or credential event after the units were launched leaves
\* the units as launched, one per shortlist id, and when every unit has
\* finished the response holds exactly one outcome per shortlist id, in
\* shortlist order
C38_InflightUnitsKeepHandles ==
    /\ [](rpc \in {"running", "done"} =>
            /\ Len(units) = Len(shortlist)
            /\ \A i \in 1..Len(units) : units[i].model_id = shortlist[i]
            /\ (rpc = "done" /\ ~timedOut /\ units # <<>>) =>
                  /\ Len(Responses) = Len(shortlist)
                  /\ \A i \in 1..Len(shortlist) :
                        /\ Responses[i].model_id = shortlist[i]
                        /\ Responses[i] = units[i].outcome)
    /\ [][catVars' # catVars => UNCHANGED reqVars]_vars

C38_Witness ==
    /\ rpc = "done"
    /\ ~timedOut
    /\ Len(Responses) = 2
    /\ response.status = "success"
    /\ \A i \in 1..Len(shortlist) : ~get_provider(shortlist[i])

====
